---- MODULE Spec2Model ----
(***************************************************************************)
(* A model of generate_flashcards/generate_flashcards.py: the class        *)
(* FlashcardGenerator, whose operations are exposed as commands by         *)
(* fire.Fire(FlashcardGenerator).                                          *)
(*                                                                         *)
(* Python strings are sequences of one-character strings, so that          *)
(* str.startswith, str.endswith, the `in` substring test and string        *)
(* concatenation are computed on characters.  A path is kept as the        *)
(* sequence of its components (the string split at "/"); PathStr gives     *)
(* the string itself.  An absolute path has the empty component first.     *)
(*                                                                         *)
(* A decoded JSON value is a record tagged with its Python type.           *)
(***************************************************************************)
EXTENDS Integers, Sequences, FiniteSets, TLC

VARIABLES
    input_dir, output_dir,      \* self.input_dir, self.output_dir
    dirs, files,                \* the file system: directories; file -> content
    pc,                         \* where the process_files invocation stands
    overwrite_files,            \* the parameter of the running process_files
    walk_stack, root, pending,  \* the os.walk generator and the `for file in files` loop
    input_file_path, output_file_path,    \* locals of process_files / parameters of process_file
    content, flashcards, output_content,  \* locals of process_file
    error,                      \* the exception that ended the run, "none" if none
    run,                        \* number of process_files invocations so far
    prev_ok,                    \* the previous invocation returned normally
    files0,                     \* the files when the running invocation started
    out_before,                 \* the output file when process_file was entered
    considered,                 \* per invocation: note -> what the loop body did with it
    calls,                      \* per invocation: note -> number of create_flashcard calls
    reads,                      \* per invocation: set of files opened for reading
    written,                    \* per invocation: output file -> [src, text] written
    skipped,                    \* per invocation: roots skipped at line 189
    arg, format_type, include_tag, result \* a direct call of format_flashcards / validate_flashcards

fsvars   == <<dirs, files>>
cfgvars  == <<input_dir, output_dir>>
walkvars == <<walk_stack, root, pending>>
taskvars == <<input_file_path, output_file_path, content, flashcards, output_content>>
histvars == <<files0, out_before, considered, calls, reads, written, skipped>>
runvars  == <<pc, overwrite_files, error, run, prev_ok>>
callvars == <<arg, format_type, include_tag, result>>
vars     == <<cfgvars, fsvars, walkvars, taskvars, histvars, runvars, callvars>>

(***************************************************************************)
(* Bounds of the model.                                                    *)
(***************************************************************************)
MaxRuns  == 2      \* process_files invocations in one behaviour
MaxCards == 2      \* length of a list of cards

(***************************************************************************)
(* Strings.                                                                *)
(***************************************************************************)
Chars(name) ==
    CASE name = ""               -> <<>>
      [] name = "."              -> <<".">>
      [] name = ".."             -> <<".", ".">>
      [] name = "w"              -> <<"w">>
      [] name = "n"              -> <<"n">>
      [] name = "sub"            -> <<"s", "u", "b">>
      [] name = "out"            -> <<"o", "u", "t">>
      [] name = "flashcards"     -> <<"f", "l", "a", "s", "h", "c", "a", "r", "d", "s">>
      [] name = "flashcards_old" -> <<"f", "l", "a", "s", "h", "c", "a", "r", "d", "s", "_", "o", "l", "d">>
      [] name = "a.md"           -> <<"a", ".", "m", "d">>
      [] name = "b.md"           -> <<"b", ".", "m", "d">>
      [] name = "c.md"           -> <<"c", ".", "m", "d">>
      [] name = "t.txt"          -> <<"t", ".", "t", "x", "t">>
      [] name = ".md"            -> <<".", "m", "d">>
      [] name = "front"          -> <<"f", "r", "o", "n", "t">>
      [] name = "back"           -> <<"b", "a", "c", "k">>
      [] name = "hint"           -> <<"h", "i", "n", "t">>
      [] name = "cards"          -> <<"c", "a", "r", "d", "s">>
      [] name = "#flashcards\n\n" -> <<"#", "f", "l", "a", "s", "h", "c", "a", "r", "d", "s", "\n", "\n">>
      [] name = "\n?\n"          -> <<"\n", "?", "\n">>
      [] name = "\n\n"           -> <<"\n", "\n">>

\* str.startswith
StartsWith(s, prefix) ==
    /\ Len(prefix) <= Len(s)
    /\ SubSeq(s, 1, Len(prefix)) = prefix

\* str.endswith
EndsWith(s, suffix) ==
    /\ Len(suffix) <= Len(s)
    /\ SubSeq(s, Len(s) - Len(suffix) + 1, Len(s)) = suffix

\* the substring test `sub in s` of two strings
Contains(s, sub) ==
    \E i \in 0..(Len(s) - Len(sub)) : SubSeq(s, i + 1, i + Len(sub)) = sub

(***************************************************************************)
(* Paths (posixpath).                                                      *)
(***************************************************************************)
\* os.getcwd()
Cwd == <<"", "w">>

IsAbs(p) == p /= <<>> /\ p[1] = ""

\* the string a path stands for: its components joined by "/"
RECURSIVE PathStr(_)
PathStr(p) ==
    IF p = <<>> THEN <<>>
    ELSE IF Len(p) = 1 THEN Chars(p[1])
    ELSE Chars(p[1]) \o <<"/">> \o PathStr(Tail(p))

\* os.path.join(a, b)
Join(a, b) == IF IsAbs(b) THEN b ELSE a \o b

\* os.path.dirname(p)
DirName(p) == SubSeq(p, 1, Len(p) - 1)

\* os.path.normpath(p): "." and empty components dropped, ".." resolved
RECURSIVE NormAcc(_, _)
NormAcc(p, acc) ==
    IF p = <<>> THEN acc
    ELSE LET c == Head(p)
             n == Len(acc)
         IN  IF c = "." \/ (c = "" /\ n > 0)
             THEN NormAcc(Tail(p), acc)
             ELSE IF c = ".." /\ n > 0 /\ acc[n] = ""
             THEN NormAcc(Tail(p), acc)
             ELSE IF c = ".." /\ n > 0 /\ acc[n] /= ".."
             THEN NormAcc(Tail(p), SubSeq(acc, 1, n - 1))
             ELSE NormAcc(Tail(p), Append(acc, c))

NormPath(p) == NormAcc(p, <<>>)

\* os.path.abspath(p); it is also the file or directory the system resolves p to
AbsPath(p) == NormPath(IF IsAbs(p) THEN p ELSE Cwd \o p)

\* length of the longest common prefix of two component lists
RECURSIVE CommonLen(_, _)
CommonLen(a, b) ==
    IF a = <<>> \/ b = <<>> \/ Head(a) /= Head(b) THEN 0
    ELSE 1 + CommonLen(Tail(a), Tail(b))

\* a slip: the file name alone, as os.path.basename gives it
RelPath_Basename(path, start) == <<path[Len(path)]>>

\* os.path.relpath(path, start)
RelPath(path, start) ==
    LET start_list == Tail(AbsPath(start))
        path_list  == Tail(AbsPath(path))
        i          == CommonLen(start_list, path_list)
        rel_list   == [k \in 1..(Len(start_list) - i) |-> ".."]
                          \o SubSeq(path_list, i + 1, Len(path_list))
    IN  IF rel_list = <<>> THEN <<".">> ELSE rel_list

(***************************************************************************)
(* The file system: dirs is the set of directories and files maps each     *)
(* regular file to its content, both keyed by absolute normalised path.    *)
(***************************************************************************)
\* os.path.exists(p)
Exists(ds, fs, p) == AbsPath(p) \in ds \/ AbsPath(p) \in DOMAIN fs

\* the directories os.makedirs(p, exist_ok=True) leaves: p and its ancestors
MakeDirs(ds, p) ==
    LET q == AbsPath(p)
    IN  ds \cup {SubSeq(q, 1, k) : k \in 1..Len(q)}

\* os.scandir(d), split by os.walk into directory names and other names
ScanDirNames(ds, d) ==
    {q[Len(q)] : q \in {x \in ds : Len(x) > 1 /\ DirName(x) = AbsPath(d)}}

ScanFileNames(fs, d) ==
    {q[Len(q)] : q \in {x \in DOMAIN fs : DirName(x) = AbsPath(d)}}

\* open(p, "w") ... write(text): the file holds text afterwards
WriteFile(fs, p, text) ==
    [q \in DOMAIN fs \cup {AbsPath(p)} |-> IF q = AbsPath(p) THEN text ELSE fs[q]]

\* the content of the file p names, or the marker "absent"
FileAt(fs, p) == IF AbsPath(p) \in DOMAIN fs THEN <<"file", fs[AbsPath(p)]>> ELSE <<"absent", <<>> >>

(***************************************************************************)
(* Decoded JSON values, tagged with their Python type.                     *)
(***************************************************************************)
JNum(n)   == [t |-> "num", n |-> n]
JStr(s)   == [t |-> "str", s |-> s]
JList(xs) == [t |-> "list", items |-> xs]
JDict(f)  == [t |-> "dict", d |-> f]

IsList(v) == v.t = "list"
IsDict(v) == v.t = "dict"
IsStr(v)  == v.t = "str"

\* str(v), as an f-string renders a value
PyStr(v) ==
    CASE v.t = "str" -> v.s
      [] v.t = "num" -> <<CASE v.n = 0 -> "0" [] v.n = 1 -> "1" [] v.n = 2 -> "2"
                            [] v.n = 3 -> "3" [] v.n = 4 -> "4" [] v.n = 5 -> "5"
                            [] v.n = 6 -> "6" [] v.n = 7 -> "7" [] v.n = 8 -> "8"
                            [] v.n = 9 -> "9">>

\* the keys of a dict in the order a for loop meets them.  Python keeps
\* insertion order, which a function does not record: a fixed order stands
\* for it.
KeyOrder == <<"front", "back", "hint", "cards">>

KeySeq(f) == SelectSeq(KeyOrder, LAMBDA k : k \in DOMAIN f)

\* what `for card in v` iterates over; "TypeError" when v is not iterable
Iterate(v) ==
    CASE v.t = "list" -> [ok |-> TRUE, items |-> v.items]
      [] v.t = "str"  -> [ok |-> TRUE, items |-> [i \in 1..Len(v.s) |-> JStr(<<v.s[i]>>)]]
      [] v.t = "dict" -> [ok |-> TRUE,
                          items |-> [i \in 1..Len(KeySeq(v.d)) |-> JStr(Chars(KeySeq(v.d)[i]))]]
      [] v.t = "num"  -> [ok |-> FALSE, items |-> <<>>]

\* whether `key in v` can be evaluated: it raises TypeError on a number
CanTestIn(v) == v.t /= "num"

\* `key in v`
KeyIn(key, v) ==
    CASE v.t = "dict" -> key \in DOMAIN v.d
      [] v.t = "str"  -> Contains(v.s, Chars(key))
      [] v.t = "list" -> \E i \in 1..Len(v.items) : v.items[i] = JStr(Chars(key))
      [] v.t = "num"  -> FALSE

\* len(v) raises TypeError on a number
HasLen(v) == v.t /= "num"

(***************************************************************************)
(* create_flashcard.  The collaborator's answer is either an exception     *)
(* raised by the client, or a message text; a text either does not decode  *)
(* as JSON, or decodes to a value.                                         *)
(***************************************************************************)
Raised        == [kind |-> "raise"]
Undecodable   == [kind |-> "text", json |-> FALSE]
ReplyOf(v)    == [kind |-> "text", json |-> TRUE, value |-> v]

Failure(e)    == [ok |-> FALSE, err |-> e]
Returned(v)   == [ok |-> TRUE, val |-> v]

CreateFlashcard(reply) ==
    IF reply.kind = "raise" THEN Failure("APIError")
    ELSE IF ~reply.json THEN Failure("JSONDecodeError")
    ELSE LET v == reply.value
         IN  IF ~IsDict(v) THEN Failure("TypeError")
             ELSE IF "cards" \notin DOMAIN v.d THEN Failure("KeyError")
             ELSE IF ~HasLen(v.d.cards) THEN Failure("TypeError")
             ELSE Returned(v.d.cards)

(***************************************************************************)
(* format_flashcards                                                       *)
(***************************************************************************)
RECURSIVE FormatLoop(_, _)
FormatLoop(cards, output) ==
    IF cards = <<>> THEN Returned(output)
    ELSE LET card == Head(cards)
         IN  IF ~CanTestIn(card) THEN Failure("TypeError")
             ELSE IF KeyIn("front", card) /\ KeyIn("back", card)
             THEN IF ~IsDict(card) THEN Failure("TypeError")
                  ELSE FormatLoop(Tail(cards),
                           output \o PyStr(card.d.front) \o Chars("\n?\n")
                                  \o PyStr(card.d.back) \o Chars("\n\n"))
             ELSE FormatLoop(Tail(cards), output)

\* a slip: the tag line without the blank line after it
FormatFlashcards_NoBlank(fc, ftype, tag) ==
    IF ftype = "obsidian_spaced_repetition"
    THEN LET output == IF tag THEN <<"#">> \o Chars("flashcards") \o <<"\n">> ELSE <<>>
             it     == Iterate(fc)
         IN  IF ~it.ok THEN Failure("TypeError")
             ELSE FormatLoop(it.items, output)
    ELSE Failure("ValueError")

FormatFlashcards(fc, ftype, tag) ==
    IF ftype = "obsidian_spaced_repetition"
    THEN LET output == IF tag THEN Chars("#flashcards\n\n") ELSE <<>>
             it     == Iterate(fc)
         IN  IF ~it.ok THEN Failure("TypeError")
             ELSE FormatLoop(it.items, output)
    ELSE Failure("ValueError")

(***************************************************************************)
(* validate_flashcards: "ok" when it returns, else the ValueError message. *)
(***************************************************************************)
\* a slip: the string test of 'front' alone
RECURSIVE ValidateLoop_FrontOnly(_)
ValidateLoop_FrontOnly(cards) ==
    IF cards = <<>> THEN "ok"
    ELSE LET card == Head(cards)
         IN  IF ~IsDict(card)
             THEN "Each flashcard must be a dict."
             ELSE IF "front" \notin DOMAIN card.d \/ "back" \notin DOMAIN card.d
             THEN "Each flashcard must have a 'front' and 'back' key."
             ELSE IF ~IsStr(card.d.front)
             THEN "The 'front' and 'back' keys must be strings."
             ELSE ValidateLoop_FrontOnly(Tail(cards))

RECURSIVE ValidateLoop(_)
ValidateLoop(cards) ==
    IF cards = <<>> THEN "ok"
    ELSE LET card == Head(cards)
         IN  IF ~IsDict(card)
             THEN "Each flashcard must be a dict."
             ELSE IF "front" \notin DOMAIN card.d \/ "back" \notin DOMAIN card.d
             THEN "Each flashcard must have a 'front' and 'back' key."
             ELSE IF ~IsStr(card.d.front) \/ ~IsStr(card.d.back)
             THEN "The 'front' and 'back' keys must be strings."
             ELSE ValidateLoop(Tail(cards))

ValidateFlashcards(fc) ==
    IF ~IsList(fc) THEN "Flashcards must be a list."
    ELSE ValidateLoop(fc.items)

(***************************************************************************)
(* The values the model draws from.                                        *)
(***************************************************************************)
TextQ == <<"Q">>
TextA == <<"A">>

GoodCard == JDict([front |-> JStr(TextQ), back |-> JStr(TextA)])

CardKinds ==
    { GoodCard,
      JDict([front |-> JStr(TextA), back |-> JStr(TextQ), hint |-> JStr(TextQ)]),
      JDict([front |-> JStr(TextQ)]),
      JDict([back |-> JStr(TextA)]),
      JDict([hint |-> JStr(TextA)]),
      JDict([front |-> JNum(1), back |-> JStr(TextA)]),
      JDict([front |-> JStr(TextQ), back |-> JNum(2)]),
      JStr(<<"x">>),
      JNum(7) }

RECURSIVE SeqsUpTo(_, _)
SeqsUpTo(S, n) ==
    IF n = 0 THEN {<<>>}
    ELSE LET shorter == SeqsUpTo(S, n - 1)
         IN  shorter \cup {Append(q, x) : q \in shorter, x \in S}

\* arguments of a direct call of format_flashcards or validate_flashcards
Payloads ==
    {JList(q) : q \in SeqsUpTo(CardKinds, MaxCards)}
        \cup {JNum(3), JStr(<<"a", "b">>), GoodCard}

FormatTypes == {"obsidian_spaced_repetition", "anki"}

\* what the collaborator may answer to one request
Replies ==
    { Raised,
      Undecodable,
      ReplyOf(JList(<<GoodCard>>)),
      ReplyOf(JDict([hint |-> JStr(TextA)])),
      ReplyOf(JDict([cards |-> JNum(3)])),
      ReplyOf(JDict([cards |-> JList(<<GoodCard>>)])),
      ReplyOf(JDict([cards |-> JList(<<GoodCard, JDict([front |-> JStr(TextQ)])>>)])),
      ReplyOf(JDict([cards |-> JList(<<JNum(7)>>)])) }

\* the arguments input_dir and output_dir of __init__; <<>> is None (or "").
\* They give: the working directory with the default output root in it; n with
\* the default output root in it, by default and spelled out; n with the same
\* output root named by an absolute path; n with an output root outside it.
\* Left out: the working directory as input with a relative output_dir below
\* it.  There a run need not end (each output file lands in a directory the
\* walk still reaches, until the path is too long for the system), so it has
\* no finite state space.
InitArgs ==
    { [in_arg |-> <<>>,    out_arg |-> <<>>],
      [in_arg |-> <<"n">>, out_arg |-> <<>>],
      [in_arg |-> <<"n">>, out_arg |-> <<"n">>],
      [in_arg |-> <<"n">>, out_arg |-> <<"", "w", "n">>],
      [in_arg |-> <<"n">>, out_arg |-> <<"out">>] }

NoteText == <<"t">>
OldText  == <<"o">>

\* the files that may exist before the first invocation
Candidates ==
    { <<"", "w", "n", "a.md">>,
      <<"", "w", "n", "sub", "b.md">>,
      <<"", "w", "n", "flashcards", "a.md">>,
      <<"", "w", "n", "flashcards_old", "c.md">> }

\* a file that is no note, always there
OtherFile == <<"", "w", "n", "t.txt">>

InitialText(p) == IF p = <<"", "w", "n", "flashcards", "a.md">> THEN OldText ELSE NoteText

\* the directories a set of files lies in, with the working directory and n
TreeDirs(F) ==
    {<<"">>, <<"", "w">>, <<"", "w", "n">>}
        \cup UNION {{SubSeq(p, 1, k) : k \in 1..(Len(p) - 1)} : p \in F}

\* calls maps each note passed to create_flashcard to the number of its calls
NoCalls == <<>>

Counted(c, note) ==
    [p \in DOMAIN c \cup {note} |->
        IF p = note THEN (IF note \in DOMAIN c THEN c[note] + 1 ELSE 1) ELSE c[p]]

CallCount(c, note) == IF note \in DOMAIN c THEN c[note] ELSE 0

(***************************************************************************)
(* __init__                                                                *)
(***************************************************************************)
InitInputDir(in_arg) == IF in_arg = <<>> THEN Cwd ELSE in_arg

InitOutputDir(in_dir, out_arg) ==
    IF out_arg = <<>> THEN Join(in_dir, <<"flashcards">>)
    ELSE Join(out_arg, <<"flashcards">>)

NoTask ==
    /\ input_file_path = <<>>
    /\ output_file_path = <<>>
    /\ content = <<>>
    /\ flashcards = JList(<<>>)
    /\ output_content = <<>>

NoCall ==
    /\ arg = JList(<<>>)
    /\ format_type = "obsidian_spaced_repetition"
    /\ include_tag = TRUE
    /\ result = [op |-> "none"]

Init ==
    /\ \E a \in InitArgs :
          /\ input_dir = InitInputDir(a.in_arg)
          /\ output_dir = InitOutputDir(InitInputDir(a.in_arg), a.out_arg)
    /\ \E F \in SUBSET Candidates :
          /\ files = [p \in F \cup {OtherFile} |-> InitialText(p)]
          /\ dirs = TreeDirs(F)
    /\ pc = "idle"
    /\ overwrite_files = FALSE
    /\ walk_stack = <<>>
    /\ root = <<>>
    /\ pending = {}
    /\ NoTask
    /\ error = "none"
    /\ run = 0
    /\ prev_ok = FALSE
    /\ files0 = files
    /\ out_before = <<"absent", <<>> >>
    /\ considered = {}
    /\ calls = NoCalls
    /\ reads = {}
    /\ written = {}
    /\ skipped = {}
    /\ NoCall

(***************************************************************************)
(* process_files.  os.walk visits top down: a directory is scanned when    *)
(* it is reached, the (root, dirs, files) triple is yielded, and after the *)
(* loop body the directories found by that scan are walked, in the order   *)
(* the scan gave, which is arbitrary.  walk_stack holds, innermost first,  *)
(* the directories found and not yet walked.                               *)
(***************************************************************************)
Push(frame, stack) == IF frame = {} THEN stack ELSE <<frame>> \o stack

\* line 189
IsOutputRoot(r, out_dir) == StartsWith(PathStr(r), PathStr(out_dir))

\* line 194
IsNote(file) == EndsWith(Chars(file), Chars(".md"))

\* lines 196-198
OutputPath(in_path, in_dir, out_dir) == Join(out_dir, RelPath(in_path, in_dir))

\* the loop `for file in files` goes on, or the generator is resumed
LoopPc(rest) == IF rest = {} THEN "walk" ELSE "files"

\* a slip: the test of overwrite_files without its `not`
MustSkip_Inverted(ds, fs, out_path, overwrite) == Exists(ds, fs, out_path) /\ overwrite

\* line 203
MustSkip(ds, fs, out_path, overwrite) == Exists(ds, fs, out_path) /\ ~overwrite

\* a slip: the exception is caught and logged, and the traversal goes on
Propagate_Continue(e) ==
    /\ error' = e
    /\ pc' = "walk"

\* the exception leaves process_file and process_files, which catch nothing, and
\* ends the process
Propagate(e) ==
    /\ error' = e
    /\ pc' = "failed"

\* process_files is invoked, for the first time or after an invocation that
\* returned.  An invocation that raised ends the behaviour.
StartRun ==
    /\ pc \in {"idle", "done"}
    /\ run < MaxRuns
    /\ \E ow \in BOOLEAN : overwrite_files' = ow
    /\ pc' = "walk"
    /\ walk_stack' = << {input_dir} >>
    /\ root' = <<>>
    /\ pending' = {}
    /\ input_file_path' = <<>>
    /\ output_file_path' = <<>>
    /\ content' = <<>>
    /\ flashcards' = JList(<<>>)
    /\ output_content' = <<>>
    /\ error' = "none"
    /\ run' = run + 1
    /\ prev_ok' = (pc = "done")
    /\ files0' = files
    /\ out_before' = <<"absent", <<>> >>
    /\ considered' = {}
    /\ calls' = NoCalls
    /\ reads' = {}
    /\ written' = {}
    /\ skipped' = {}
    /\ UNCHANGED <<cfgvars, fsvars, callvars>>

\* the generator is exhausted: process_files returns
WalkDone ==
    /\ pc = "walk"
    /\ walk_stack = <<>>
    /\ pc' = "done"
    /\ UNCHANGED <<cfgvars, fsvars, walkvars, taskvars, histvars, callvars,
                   overwrite_files, error, run, prev_ok>>

\* lines 188-191: the next (root, dirs, files) and the test of root
WalkNext ==
    /\ pc = "walk"
    /\ walk_stack /= <<>>
    /\ \E d \in Head(walk_stack) :
          LET rest     == Push(Head(walk_stack) \ {d}, Tail(walk_stack))
              children == {Join(d, <<name>>) : name \in ScanDirNames(dirs, d)}
              names    == ScanFileNames(files, d)
          IN  /\ root' = d
              /\ walk_stack' = Push(children, rest)
              /\ IF IsOutputRoot(d, output_dir)
                 THEN /\ skipped' = skipped \cup {d}
                      /\ pending' = {}
                      /\ pc' = "walk"
                 ELSE /\ skipped' = skipped
                      /\ pending' = names
                      /\ pc' = LoopPc(names)
    /\ UNCHANGED <<cfgvars, fsvars, taskvars, callvars, overwrite_files, error, run,
                   prev_ok, files0, out_before, considered, calls, reads, written>>

\* lines 193-206, up to the call of process_file
NextFile ==
    /\ pc = "files"
    /\ \E file \in pending :
          LET in_path  == Join(root, <<file>>)
              out_path == OutputPath(in_path, input_dir, output_dir)
              made     == MakeDirs(dirs, DirName(out_path))
              rest     == pending \ {file}
          IN  /\ pending' = rest
              /\ IF ~IsNote(file)
                 THEN /\ pc' = LoopPc(rest)
                      /\ UNCHANGED <<dirs, taskvars, error, out_before, considered>>
                 ELSE \/ \* os.makedirs cannot create a directory
                         /\ made /= dirs
                         /\ Propagate("makedirs")
                         /\ UNCHANGED <<dirs, taskvars, out_before, considered>>
                      \/ /\ dirs' = made
                         /\ considered' = considered \cup
                                {[note |-> AbsPath(in_path), out |-> AbsPath(out_path),
                                  existed |-> Exists(made, files, out_path),
                                  before |-> FileAt(files, out_path)]}
                         /\ error' = error
                         /\ IF MustSkip(made, files, out_path, overwrite_files)
                            THEN /\ pc' = LoopPc(rest)
                                 /\ UNCHANGED <<taskvars, out_before>>
                            ELSE /\ pc' = "read"
                                 /\ input_file_path' = in_path
                                 /\ output_file_path' = out_path
                                 /\ out_before' = FileAt(files, out_path)
                                 /\ UNCHANGED <<content, flashcards, output_content>>
    /\ UNCHANGED <<cfgvars, files, walk_stack, root, callvars, overwrite_files, run,
                   prev_ok, files0, calls, reads, written, skipped>>

(***************************************************************************)
(* process_file, called at line 206 with print_output left False.          *)
(***************************************************************************)
\* process_file returns to the loop of process_files
ReturnToLoop ==
    /\ pc' = LoopPc(pending)
    /\ input_file_path' = <<>>
    /\ output_file_path' = <<>>
    /\ content' = <<>>
    /\ flashcards' = JList(<<>>)
    /\ output_content' = <<>>

\* lines 159-161
PfRead ==
    /\ pc = "read"
    /\ \/ \* open(input_file_path) or read() raises
          /\ Propagate("read")
          /\ UNCHANGED <<content, reads>>
       \/ /\ content' = files[AbsPath(input_file_path)]
          /\ reads' = reads \cup {AbsPath(input_file_path)}
          /\ pc' = "create"
          /\ error' = error
    /\ UNCHANGED <<cfgvars, fsvars, walkvars, callvars, input_file_path,
                   output_file_path, flashcards, output_content, overwrite_files,
                   run, prev_ok, files0, out_before, considered, calls, written,
                   skipped>>

\* a slip: the output file opened for writing before the flashcards are there
PfCreate_OpensFirst ==
    /\ pc = "create"
    /\ calls' = Counted(calls, AbsPath(input_file_path))
    /\ files' = WriteFile(files, output_file_path, <<>>)
    /\ \E reply \in Replies :
          LET r == CreateFlashcard(reply)
          IN  IF r.ok
              THEN /\ flashcards' = r.val
                   /\ pc' = "format"
                   /\ error' = error
              ELSE /\ Propagate("generate")
                   /\ flashcards' = flashcards
    /\ UNCHANGED <<cfgvars, dirs, walkvars, callvars, input_file_path,
                   output_file_path, content, output_content, overwrite_files,
                   run, prev_ok, files0, out_before, considered, reads, written,
                   skipped>>

\* line 164
PfCreate ==
    /\ pc = "create"
    /\ calls' = Counted(calls, AbsPath(input_file_path))
    /\ \E reply \in Replies :
          LET r == CreateFlashcard(reply)
          IN  IF r.ok
              THEN /\ flashcards' = r.val
                   /\ pc' = "format"
                   /\ error' = error
              ELSE /\ Propagate("generate")
                   /\ flashcards' = flashcards
    /\ UNCHANGED <<cfgvars, fsvars, walkvars, callvars, input_file_path,
                   output_file_path, content, output_content, overwrite_files,
                   run, prev_ok, files0, out_before, considered, reads, written,
                   skipped>>

\* line 166
PfFormat ==
    /\ pc = "format"
    /\ LET r == FormatFlashcards(flashcards, "obsidian_spaced_repetition", TRUE)
       IN  IF r.ok
           THEN /\ output_content' = r.val
                /\ pc' = "write"
                /\ error' = error
           ELSE /\ Propagate("format")
                /\ output_content' = output_content
    /\ UNCHANGED <<cfgvars, fsvars, walkvars, callvars, input_file_path,
                   output_file_path, content, flashcards, overwrite_files, run,
                   prev_ok, files0, out_before, considered, calls, reads, written,
                   skipped>>

\* lines 168-176
PfWrite ==
    /\ pc = "write"
    /\ \/ \* open(output_file_path, "w") raises: the file is as it was
          /\ Propagate("write")
          /\ UNCHANGED <<files, written, taskvars>>
       \/ \* open has truncated or created the file, and write() raises
          /\ files' = WriteFile(files, output_file_path, <<>>)
          /\ Propagate("write")
          /\ UNCHANGED <<written, taskvars>>
       \/ /\ files' = WriteFile(files, output_file_path, output_content)
          /\ written' = written \cup
                 {[src |-> AbsPath(input_file_path), out |-> AbsPath(output_file_path),
                   text |-> output_content]}
          /\ error' = error
          /\ ReturnToLoop
    /\ UNCHANGED <<cfgvars, dirs, walkvars, callvars, overwrite_files, run, prev_ok,
                   files0, out_before, considered, calls, reads, skipped>>

Next ==
    \/ StartRun
    \/ WalkNext
    \/ WalkDone
    \/ NextFile
    \/ PfRead
    \/ PfCreate
    \/ PfFormat
    \/ PfWrite

Spec == Init /\ [][Next]_vars

(***************************************************************************)
(* Direct calls of format_flashcards and validate_flashcards.              *)
(***************************************************************************)
InitCalls ==
    /\ input_dir = InitInputDir(<<>>)
    /\ output_dir = InitOutputDir(InitInputDir(<<>>), <<>>)
    /\ files = <<>>
    /\ dirs = TreeDirs({})
    /\ pc = "idle"
    /\ overwrite_files = FALSE
    /\ walk_stack = <<>>
    /\ root = <<>>
    /\ pending = {}
    /\ NoTask
    /\ error = "none"
    /\ run = 0
    /\ prev_ok = FALSE
    /\ files0 = files
    /\ out_before = <<"absent", <<>> >>
    /\ considered = {}
    /\ calls = NoCalls
    /\ reads = {}
    /\ written = {}
    /\ skipped = {}
    /\ arg \in Payloads
    /\ format_type \in FormatTypes
    /\ include_tag \in BOOLEAN
    /\ result = [op |-> "none"]

FormatCall ==
    /\ result' = [op |-> "format", r |-> FormatFlashcards(arg, format_type, include_tag)]
    /\ UNCHANGED <<cfgvars, fsvars, walkvars, taskvars, histvars, runvars, arg,
                   format_type, include_tag>>

ValidateCall ==
    /\ result' = [op |-> "validate", r |-> ValidateFlashcards(arg)]
    /\ UNCHANGED <<cfgvars, fsvars, walkvars, taskvars, histvars, runvars, arg,
                   format_type, include_tag>>

NextCalls ==
    \/ FormatCall
    \/ ValidateCall

SpecCalls == InitCalls /\ [][NextCalls]_vars

(***************************************************************************)
(* The properties.                                                         *)
(***************************************************************************)
\* p lies in directory d or below it
Under(p, d) == Len(d) <= Len(p) /\ SubSeq(p, 1, Len(d)) = d

InputRoot  == AbsPath(input_dir)
OutputRoot == AbsPath(output_dir)

\* the output root followed by what p has below the input root
Mirrored(p) == OutputRoot \o SubSeq(p, Len(InputRoot) + 1, Len(p))

\* the notes create_flashcard was called for, the files read as notes and the
\* notes an output file was written for
Processed == DOMAIN calls \cup reads \cup {w.src : w \in written}

\* C1: with overwrite_files false, a note whose output path existed when the
\* loop reached it is never passed to create_flashcard, and the file at that
\* path stays as it was.
C1_ExistingOutputSkipped ==
    ~overwrite_files =>
        \A c \in considered :
            c.existed =>
                /\ CallCount(calls, c.note) = 0
                /\ c.note \notin reads
                /\ FileAt(files, c.out) = c.before

\* C1 happens: a run without overwrite has passed an existing output file,
\* has written another one, and has returned.
C1_Witness ==
    /\ pc = "done"
    /\ ~overwrite_files
    /\ written /= {}
    /\ \E c \in considered : c.existed /\ c.before[1] = "file"

\* C2: no file in the output root or below it is read as a note, passed to
\* create_flashcard or given an output file.
C2_OutputNeverProcessed ==
    \A p \in Processed : ~Under(p, OutputRoot)

\* C3: a run that returns has called create_flashcard once for every due note
\* under the input root and outside the output root and for no other file,
\* and has skipped no directory outside the output root.
C3_EveryDueNoteOnce ==
    /\ \A r \in skipped : Under(AbsPath(r), OutputRoot)
    /\ pc = "done" =>
          \A p \in DOMAIN files0 \cup DOMAIN calls :
              LET note == /\ p \in DOMAIN files0
                          /\ IsNote(p[Len(p)])
                          /\ Under(p, InputRoot)
                          /\ ~Under(p, OutputRoot)
                  due  == note /\ (overwrite_files \/ Mirrored(p) \notin DOMAIN files0)
              IN  CallCount(calls, p) = IF due THEN 1 ELSE 0

\* C4: the output path of a note is the output root joined with the note's path
\* below the input root, its directory exists when the file is written, and two
\* notes never share an output path.
C4_MirroredOutputPath ==
    /\ \A c \in considered : Under(c.note, InputRoot) /\ c.out = Mirrored(c.note)
    /\ \A c1, c2 \in considered : c1.out = c2.out => c1.note = c2.note
    /\ \A w \in written : w.out = Mirrored(w.src) /\ DirName(w.out) \in dirs
    /\ pc \in {"read", "create", "format", "write"} =>
          /\ AbsPath(output_file_path) = Mirrored(AbsPath(input_file_path))
          /\ DirName(AbsPath(output_file_path)) \in dirs

\* C4 happens: a note in a subdirectory of the input root has been written to the
\* mirrored subdirectory, after another note.
C4_Witness ==
    /\ Cardinality(written) >= 2
    /\ \E w \in written :
          /\ Len(w.src) > Len(InputRoot) + 1
          /\ AbsPath(w.out) \in DOMAIN files

\* C5: once a step of process_file has failed the run is over: nothing more is
\* read, generated or written, and what was written before stays on disk.
C5_FailFastNoRollback ==
    /\ [](error /= "none" =>
            /\ pc = "failed"
            /\ \A w \in written : FileAt(files, w.out) = <<"file", w.text>>)
    /\ [][error /= "none" => UNCHANGED <<files, dirs, reads, calls, written>>]_vars

\* C5 happens: a file has failed after another one was written and with files
\* or directories still to come.
C5_Witness ==
    /\ pc = "failed"
    /\ error \in {"read", "generate", "format", "write"}
    /\ written /= {}
    /\ (pending /= {} \/ walk_stack /= <<>>)

\* C6: whatever create_flashcard returns, and so whatever is formatted and
\* written, passes validate_flashcards.
C6_OnlyValidPayloads ==
    pc \in {"format", "write"} => ValidateFlashcards(flashcards) = "ok"

\* the text the claim C7 describes, stated without the loop of the code
Line(text) == text \o <<"\n">>

BlankLine == <<"\n">>

HasBoth(card) == "front" \in DOMAIN card.d /\ "back" \in DOMAIN card.d

RECURSIVE Blocks(_)
Blocks(records) ==
    IF records = <<>> THEN <<>>
    ELSE Line(PyStr(Head(records).d.front)) \o Line(<<"?">>)
             \o Line(PyStr(Head(records).d.back)) \o BlankLine
             \o Blocks(Tail(records))

\* C7: for a list of records, format_flashcards returns the tag line and a blank
\* line if and only if include_tag, then front, a line with ?, back and a blank
\* line for each record that has both, in order; the others add nothing.
C7_FormatExact ==
    ( /\ result.op = "format"
      /\ format_type = "obsidian_spaced_repetition"
      /\ IsList(arg)
      /\ \A i \in 1..Len(arg.items) : IsDict(arg.items[i]) )
    => result.r = Returned(
           (IF include_tag THEN Line(<<"#">> \o Chars("flashcards")) \o BlankLine ELSE <<>>)
               \o Blocks(SelectSeq(arg.items, HasBoth)))

\* C7 happens: a list of a full record and a record without back was formatted.
C7_Witness ==
    /\ result.op = "format"
    /\ format_type = "obsidian_spaced_repetition"
    /\ include_tag
    /\ arg = JList(<<JDict([front |-> JStr(TextQ)]), GoodCard>>)
    /\ result.r.ok

\* the four constraints of C8 and their messages
Constraint2(card) == IsDict(card)
Constraint3(card) == "front" \in DOMAIN card.d /\ "back" \in DOMAIN card.d
Constraint4(card) == IsStr(card.d.front) /\ IsStr(card.d.back)

FirstBroken(card) ==
    IF ~Constraint2(card) THEN "Each flashcard must be a dict."
    ELSE IF ~Constraint3(card) THEN "Each flashcard must have a 'front' and 'back' key."
    ELSE IF ~Constraint4(card) THEN "The 'front' and 'back' keys must be strings."
    ELSE "ok"

\* C8: validate_flashcards fails exactly when a constraint is broken, with the
\* message of the first broken constraint of the first offending element, and
\* returns on every other payload.
C8_ValidateExact ==
    result.op = "validate" =>
        IF ~IsList(arg) THEN result.r = "Flashcards must be a list."
        ELSE LET bad == {i \in 1..Len(arg.items) : FirstBroken(arg.items[i]) /= "ok"}
             IN  IF bad = {} THEN result.r = "ok"
                 ELSE \E i \in bad :
                         /\ \A j \in bad : i <= j
                         /\ result.r = FirstBroken(arg.items[i])

\* C8 happens: a list whose second element has a number as back was validated.
C8_Witness ==
    /\ result.op = "validate"
    /\ arg = JList(<<GoodCard, JDict([front |-> JStr(TextQ), back |-> JNum(2)])>>)
    /\ result.r = "The 'front' and 'back' keys must be strings."

\* C9: from the entry of process_file until format_flashcards has returned, and
\* after a failure of reading, generating or formatting, the output file is as
\* it was at the entry.
C9_OutputUntouchedUntilWrite ==
    (pc \in {"read", "create", "format", "write"}
        \/ error \in {"read", "generate", "format"})
    => FileAt(files, output_file_path) = out_before

\* C9 happens: with overwrite_files true the generation failed for a note whose
\* output file existed.
C9_Witness ==
    /\ overwrite_files
    /\ error = "generate"
    /\ out_before[1] = "file"

\* C10: after a run that returned, a run with overwrite_files false calls
\* create_flashcard for no note and leaves every file as it was.
C10_SecondRunChangesNothing ==
    (run >= 2 /\ prev_ok /\ ~overwrite_files) =>
        /\ DOMAIN calls = {}
        /\ files = files0

====
